---- MODULE Spec2Model ----
(***************************************************************************)
(* Session / token-lifecycle core of the organization switcher backend:    *)
(* the views of auth_app/views.py, the login decorator, the token-refresh  *)
(* middleware and the client wrapper around the identity provider, over    *)
(* one browser session kept in the database session store; and the         *)
(* connected-accounts service of auth_app/connector_service.py over the    *)
(* provider's accounts of the session's user.                              *)
(*                                                                         *)
(* Encoding of Python values.  Optional scalars (tokens, state values,     *)
(* codes, ids, expires_in) are integers: a real value is >= 0 (tokens and  *)
(* state values are serial numbers >= 1), NONE is Python's None, EMPTY is  *)
(* the empty string and ABSENT is a key that the dict does not have.       *)
(***************************************************************************)
EXTENDS Integers, Sequences, FiniteSets, TLC

ABSENT == -1
NONE == -2
EMPTY == -3

\* Python truthiness of an optional scalar: `if v:` / `not v`.
Truthy(v) == v \notin {ABSENT, NONE, EMPTY}

\* dict.get(key) and dict.get(key, default).
DictGet(v) == IF v = ABSENT THEN NONE ELSE v
DictGetDefault(v, d) == IF v = ABSENT THEN d ELSE v

(***************************************************************************)
(* Bounds of the exploration.                                              *)
(***************************************************************************)
MaxNow == 30
TickStep == 30
MaxStates == 2
MaxTokens == 2

(***************************************************************************)
(* Program constants.                                                      *)
(***************************************************************************)
BufferTime == 60
DefaultExpiresIn == 3600

\* expires_in values the provider may put in a token response.
ExpiresInVals == {ABSENT, NONE, 60, 61}

(***************************************************************************)
(* Request paths, as sequences of path tokens, so that str.startswith is   *)
(* the prefix relation.                                                    *)
(***************************************************************************)
IsPrefix(p, s) == Len(p) <= Len(s) /\ SubSeq(s, 1, Len(p)) = p

skip_paths ==
    { <<"/", "api", "/", "auth", "/", "login">>,
      <<"/", "api", "/", "auth", "/", "callback">>,
      <<"/", "api", "/", "auth", "/", "logout">>,
      <<"/", "static", "/">>,
      <<"/", "api", "/", "auth", "/", "refresh">> }

Kinds == {"auth_url", "callback", "user", "switch_org", "logout", "health"}

\* The route of each view (urls.py, mounted under /api/ as the views document).
PathOf(kind) ==
    CASE kind = "auth_url"   -> <<"/", "api", "/", "auth", "/", "url">>
      [] kind = "callback"   -> <<"/", "api", "/", "auth", "/", "callback">>
      [] kind = "user"       -> <<"/", "api", "/", "auth", "/", "user">>
      [] kind = "logout"     -> <<"/", "api", "/", "auth", "/", "logout">>
      [] kind = "switch_org" -> <<"/", "api", "/", "auth", "/", "switch-org">>
      [] kind = "health"     -> <<"/", "api", "/", "health">>

SkippedPath(path) == \E p \in skip_paths : IsPrefix(p, path)

(***************************************************************************)
(* The session: the three keys the code uses.  A key that is not set reads *)
(* as None (oauth_state) or as the empty dict (scalekit_user,              *)
(* scalekit_tokens: present = FALSE, every .get() of it gives None).       *)
(***************************************************************************)
NoExpiry == <<>>

NoTokens ==
    [present |-> FALSE, access_token |-> NONE, refresh_token |-> NONE,
     id_token |-> NONE, expires_at |-> NoExpiry, expires_in |-> NONE]

NoUser == [present |-> FALSE, sub |-> NONE, current_organization_id |-> NONE]

EmptySession ==
    [oauth_state |-> NONE, scalekit_user |-> NoUser, scalekit_tokens |-> NoTokens]

\* datetime.isoformat() of an aware UTC datetime: the instant and its offset.
Isoformat(t) == <<t, "+00:00">>

\* Faulty variant: any text is taken for a time.
FromIsoformat_Lenient(s) == s[1]

\* fromisoformat(s.replace('Z', '+00:00')), made aware when it has no offset.
FromIsoformat(s) ==
    LET off == IF s[2] = "Z" THEN "+00:00" ELSE s[2]
    IN  IF off \in {"+00:00", ""} THEN s[1] ELSE NONE

(***************************************************************************)
(* The identity provider's answers.  Tokens it issues are numbered by a    *)
(* serial n, so a larger number is a fresher token.                        *)
(***************************************************************************)
RaisedResponse ==
    [raised |-> TRUE, access_token |-> ABSENT, refresh_token |-> ABSENT,
     id_token |-> ABSENT, expires_in |-> ABSENT]

\* A refresh response may leave out the refresh token (no key, or an empty
\* value), the ID token (no key, or null) and expires_in.
RefreshResponses(n) ==
    [raised : {FALSE}, access_token : {n}, refresh_token : {ABSENT, EMPTY, n},
     id_token : {ABSENT}, expires_in : ExpiresInVals]
    \cup
    [raised : {FALSE}, access_token : {n}, refresh_token : {n},
     id_token : {NONE, n}, expires_in : {61}]

ExchangeResponses(n) ==
    [raised : {FALSE}, access_token : {n}, refresh_token : {ABSENT, n},
     id_token : {n}, expires_in : ExpiresInVals]

\* Claims of a validated access token: the three organization claims.
ClaimSets ==
    { [raised |-> FALSE, oid |-> 1, org_id |-> 2, organization_id |-> NONE],
      [raised |-> FALSE, oid |-> NONE, org_id |-> 2, organization_id |-> 1] }

RaisedClaims == [raised |-> TRUE, oid |-> NONE, org_id |-> NONE, organization_id |-> NONE]

(***************************************************************************)
(* ScalekitClient.refresh_access_token / exchange_code_for_tokens: the     *)
(* wrapper fills in expires_in and keeps the old refresh token.            *)
(***************************************************************************)
\* Faulty variant: the provider's response passed on as it came.
refresh_access_token_Unfilled(resp, refresh_token) == resp

refresh_access_token(resp, refresh_token) ==
    IF resp.raised THEN RaisedResponse
    ELSE [resp EXCEPT
            !.expires_in = IF resp.expires_in = ABSENT THEN DefaultExpiresIn ELSE @,
            !.refresh_token = IF ~Truthy(resp.refresh_token) THEN refresh_token ELSE @]

exchange_code_for_tokens(resp) ==
    IF resp.raised THEN RaisedResponse
    ELSE [resp EXCEPT
            !.expires_in = IF resp.expires_in = ABSENT THEN DefaultExpiresIn ELSE @]

(***************************************************************************)
(* ScalekitTokenRefreshMiddleware.process_request, in two halves: up to    *)
(* the provider call, and from the provider's answer on.                   *)
(***************************************************************************)
\* Faulty variant: the comparison made strict.
ExpiringSoon_Strict(t, expires_at) == t + BufferTime > expires_at

\* timezone.now() + buffer_time >= expires_at
ExpiringSoon(t, expires_at) == t + BufferTime >= expires_at

\* The state the middleware finds: what process_request does before any call.
MiddlewareState(session, path, t) ==
    LET token_data == session.scalekit_tokens
    IN  IF ~session.scalekit_user.present THEN "no_session"
        ELSE IF SkippedPath(path) THEN "skipped_path"
        ELSE IF ~token_data.present THEN "no_tokens"
        ELSE IF token_data.expires_at = NoExpiry THEN "no_expires_at"
        ELSE IF FromIsoformat(token_data.expires_at) = NONE THEN "bad_expires_at"
        ELSE IF ~ExpiringSoon(t, FromIsoformat(token_data.expires_at)) THEN "live"
        ELSE IF ~Truthy(token_data.refresh_token) THEN "no_refresh_token"
        ELSE "refresh"

\* Faulty variant: a failed refresh evicts the token bundle.
RefreshFailed_Evict(session) ==
    [session |-> [session EXCEPT !.scalekit_tokens = NoTokens], outcome |-> "refresh_failed"]

\* except Exception: the failure is logged and the session left as it is.
RefreshFailed(session) == [session |-> session, outcome |-> "refresh_failed"]

\* Faulty variant: the access token and expires_at are updated in place, the
\* other fields of the bundle left as they were.
ApplyRefresh_Partial(session, resp0, t2) ==
    LET token_response == refresh_access_token(resp0, session.scalekit_tokens.refresh_token)
        expires_in == DictGetDefault(token_response.expires_in, DefaultExpiresIn)
    IN  IF token_response.raised \/ expires_in = NONE
        THEN RefreshFailed(session)
        ELSE [session |->
                [session EXCEPT
                    !.scalekit_tokens.access_token = DictGet(token_response.access_token),
                    !.scalekit_tokens.expires_at = Isoformat(t2 + expires_in)],
              outcome |-> "refreshed"]

\* The session after the provider answered the refresh call at time t2.
ApplyRefresh(session, resp0, t2) ==
    LET token_data == session.scalekit_tokens
        refresh_token == token_data.refresh_token
        token_response == refresh_access_token(resp0, refresh_token)
        expires_in == DictGetDefault(token_response.expires_in, DefaultExpiresIn)
    IN  IF token_response.raised \/ expires_in = NONE
        THEN RefreshFailed(session)
        ELSE [session |->
                [session EXCEPT !.scalekit_tokens =
                    [present |-> TRUE,
                     access_token |-> DictGet(token_response.access_token),
                     refresh_token |-> DictGetDefault(token_response.refresh_token, refresh_token),
                     id_token |-> DictGetDefault(token_response.id_token, token_data.id_token),
                     expires_at |-> Isoformat(t2 + expires_in),
                     expires_in |-> expires_in]],
              outcome |-> "refreshed"]

\* Faulty variant: a refresh call that failed is made a second time.
process_request_Retrying(session, path, t, resp0) ==
    LET st == MiddlewareState(session, path, t)
    IN  IF st = "refresh"
        THEN LET r == ApplyRefresh(session, resp0, t)
             IN  [session |-> r.session, outcome |-> r.outcome,
                  calls |-> IF r.outcome = "refresh_failed"
                            THEN <<"refresh", "refresh">> ELSE <<"refresh">>,
                  response |-> NONE]
        ELSE [session |-> session, outcome |-> st, calls |-> <<>>, response |-> NONE]

\* The whole of process_request; it always returns None (no response).
process_request(session, path, t, resp0) ==
    LET st == MiddlewareState(session, path, t)
    IN  IF st = "refresh"
        THEN LET r == ApplyRefresh(session, resp0, t)
             IN  [session |-> r.session, outcome |-> r.outcome,
                  calls |-> <<"refresh">>, response |-> NONE]
        ELSE [session |-> session, outcome |-> st, calls |-> <<>>, response |-> NONE]

(***************************************************************************)
(* Results of a view: the session as the view leaves it (saved with the    *)
(* response, SESSION_SAVE_EVERY_REQUEST), the response and the provider    *)
(* calls made, in order.                                                   *)
(***************************************************************************)
NoUrl == [state |-> NONE, organization_id |-> NONE, prompt |-> "None"]

Result(session) ==
    [session |-> session, status |-> 200, error |-> "none", calls |-> <<>>,
     logout_url |-> NONE, state |-> NONE, auth_url |-> NoUrl]

\* ScalekitClient.get_authorization_url: the options the URL is built from.
get_authorization_url(state, organization_id, prompt) ==
    [state |-> state,
     organization_id |-> IF Truthy(organization_id) THEN organization_id ELSE NONE,
     prompt |-> IF prompt \notin {"None", ""} THEN prompt ELSE "None"]

\* Faulty variant: the decorator lets every session through.
api_login_required_Off(session) == TRUE

\* @api_login_required: the session holds a (non-empty) scalekit_user.
api_login_required(session) == session.scalekit_user.present

Unauthenticated(session) ==
    [Result(session) EXCEPT !.status = 401, !.error = "unauthenticated"]

\* Faulty variant: a state value already pending is kept.
StoreOAuthState_KeepFirst(session, state) ==
    IF session.oauth_state # NONE THEN session ELSE [session EXCEPT !.oauth_state = state]

\* request.session['oauth_state'] = state
StoreOAuthState(session, state) == [session EXCEPT !.oauth_state = state]

\* Faulty variant: the state value stays in the session.
PopOAuthState_Keep(session) == session

\* request.session.pop('oauth_state', None)
PopOAuthState(session) == [session EXCEPT !.oauth_state = NONE]

\* Faulty variant: only the token bundle is removed.
Flush_TokensOnly(session) == [session EXCEPT !.scalekit_tokens = NoTokens]

\* Faulty variant: only the user record is removed.
Flush_UserOnly(session) == [session EXCEPT !.scalekit_user = NoUser]

\* request.session.flush()
Flush(session) == EmptySession

(***************************************************************************)
(* get_auth_url_view and switch_organization_view.                         *)
(***************************************************************************)
\* Faulty variant: the switch also rewrites the session's current organization.
IssueAuthUrl_SwitchesLocally(session, state, organization_id, prompt, url_raises) ==
    LET s1 == [session EXCEPT
                  !.oauth_state = state,
                  !.scalekit_user.current_organization_id =
                      IF session.scalekit_user.present /\ Truthy(organization_id)
                      THEN organization_id ELSE @]
        saved == [Result(s1) EXCEPT !.calls = <<"authorization_url">>]
    IN  IF url_raises
        THEN [saved EXCEPT !.status = 500, !.error = "exception"]
        ELSE [saved EXCEPT !.state = state,
                           !.auth_url = get_authorization_url(state, organization_id, prompt)]

\* The state value is stored and saved, then the provider URL is requested.
IssueAuthUrl(session, state, organization_id, prompt, url_raises) ==
    LET s1 == StoreOAuthState(session, state)
        saved == [Result(s1) EXCEPT !.calls = <<"authorization_url">>]
    IN  IF url_raises
        THEN [saved EXCEPT !.status = 500, !.error = "exception"]
        ELSE [saved EXCEPT !.state = state,
                           !.auth_url = get_authorization_url(state, organization_id, prompt)]

\* Faulty variant: login start is refused on a session that is not logged in.
get_auth_url_view_LoginRequired(session, body, state, url_raises) ==
    IF ~session.scalekit_user.present THEN Unauthenticated(session)
    ELSE IF body.malformed
    THEN [Result(session) EXCEPT !.status = 500, !.error = "exception"]
    ELSE IssueAuthUrl(session, state, body.organization_id, body.prompt, url_raises)

get_auth_url_view(session, body, state, url_raises) ==
    IF body.malformed
    THEN [Result(session) EXCEPT !.status = 500, !.error = "exception"]
    ELSE IssueAuthUrl(session, state, body.organization_id, body.prompt, url_raises)

\* Faulty variant: only a missing or null organization_id is refused.
MissingOrganization_NullOnly(organization_id) == organization_id \in {ABSENT, NONE}

\* `if not organization_id:`
MissingOrganization(organization_id) == ~Truthy(organization_id)

switch_organization_view(session, body, state, url_raises) ==
    IF ~api_login_required(session) THEN Unauthenticated(session)
    ELSE IF body.malformed
    THEN [Result(session) EXCEPT !.status = 500, !.error = "exception"]
    ELSE IF MissingOrganization(body.organization_id)
    THEN [Result(session) EXCEPT !.status = 400, !.error = "missing_parameter"]
    ELSE IssueAuthUrl(session, state, body.organization_id, "select_account", url_raises)

(***************************************************************************)
(* callback_view.                                                          *)
(***************************************************************************)
\* Faulty variant: the three claims read in the opposite order.
CurrentOrgId_Reversed(user_info) ==
    IF Truthy(user_info.organization_id) THEN user_info.organization_id
    ELSE IF Truthy(user_info.org_id) THEN user_info.org_id
    ELSE user_info.oid

\* current_org_id = oid or org_id or organization_id
CurrentOrgId(user_info) ==
    IF Truthy(user_info.oid) THEN user_info.oid
    ELSE IF Truthy(user_info.org_id) THEN user_info.org_id
    ELSE user_info.organization_id

\* Faulty variant: only a state value that differs from the stored one is rejected.
StateRejected_MismatchOnly(state, stored_state) == state # stored_state

\* `not state or state != stored_state`
StateRejected(state, stored_state) == ~Truthy(state) \/ state # stored_state

\* Faulty variant: the user record is written before the step that raised.
CallbackRaised_UserWritten(session, calls) ==
    [Result([session EXCEPT !.scalekit_user =
                [present |-> TRUE, sub |-> 1, current_organization_id |-> NONE]])
     EXCEPT !.status = 500, !.error = "exception", !.calls = calls]

\* except Exception: a step after the checks raised; nothing was written yet.
CallbackRaised(session, calls) ==
    [Result(session) EXCEPT !.status = 500, !.error = "exception", !.calls = calls]

callback_view(session, body, exch0, user_info, t) ==
    IF body.malformed
    THEN [Result(session) EXCEPT !.status = 500, !.error = "exception"]
    ELSE IF StateRejected(DictGet(body.state), session.oauth_state)
    THEN [Result(session) EXCEPT !.status = 400, !.error = "invalid_state"]
    ELSE
      LET s1 == PopOAuthState(session)
          token_response == exchange_code_for_tokens(exch0)
          expires_in == DictGetDefault(token_response.expires_in, DefaultExpiresIn)
      IN  IF Truthy(body.error)
          THEN [Result(s1) EXCEPT !.status = 400, !.error = "provider_error"]
          ELSE IF ~Truthy(body.code)
          THEN [Result(s1) EXCEPT !.status = 400, !.error = "missing_code"]
          ELSE IF token_response.raised
          THEN CallbackRaised(s1, <<"exchange">>)
          ELSE IF user_info.raised
          THEN CallbackRaised(s1, <<"exchange", "validate">>)
          ELSE IF expires_in = NONE
          THEN CallbackRaised(s1, <<"exchange", "validate", "user_organizations">>)
          ELSE
            [Result([s1 EXCEPT
                !.scalekit_user =
                    [present |-> TRUE, sub |-> 1,
                     current_organization_id |-> CurrentOrgId(user_info)],
                !.scalekit_tokens =
                    [present |-> TRUE,
                     access_token |-> DictGet(token_response.access_token),
                     refresh_token |-> DictGet(token_response.refresh_token),
                     id_token |-> DictGet(token_response.id_token),
                     expires_at |-> Isoformat(t + expires_in),
                     expires_in |-> expires_in]])
             EXCEPT !.calls = <<"exchange", "validate", "user_organizations">>]

(***************************************************************************)
(* user_info_view, logout_view, health_check_view.                         *)
(***************************************************************************)
user_info_view(session) ==
    IF ~api_login_required(session) THEN Unauthenticated(session)
    ELSE [Result(session) EXCEPT
            !.calls = IF Truthy(session.scalekit_user.sub)
                      THEN <<"user_organizations">> ELSE <<>>]

\* Faulty variant: the provider is asked for a logout URL whatever the bundle holds.
CallsProviderLogout_Always(access_token) == TRUE

\* `if access_token:` guards the provider's logout call.
CallsProviderLogout(access_token) == Truthy(access_token)

\* The logout URL the provider returns.
LogoutUrl == 1

logout_view(session, logout_raises) ==
    IF ~api_login_required(session) THEN Unauthenticated(session)
    ELSE
      LET token_data == session.scalekit_tokens
          access_token == token_data.access_token
          called == CallsProviderLogout(access_token)
          logout_url == IF called /\ ~logout_raises THEN LogoutUrl ELSE NONE
      IN  [Result(Flush(session)) EXCEPT
              !.calls = IF called THEN <<"logout">> ELSE <<>>,
              !.logout_url = logout_url]

health_check_view(session) == Result(session)

(***************************************************************************)
(* connector_service.py: the static catalog, the provider's connected      *)
(* accounts and ConnectorService.  A Python dict is a record whose fields   *)
(* are its keys; a message is the sequence of the pieces it is formatted    *)
(* from.  A method's outcome is what it returns or the exception it raises, *)
(* the provider calls it made, in order, and the provider's accounts after. *)
(***************************************************************************)
\* The catalog, in the order the dict literal lists its keys.
SUPPORTED_CONNECTORS ==
    << [key |-> "github", name |-> "github-WZZtcfBc", display_name |-> "GitHub",
        description |-> "Connect to GitHub to manage repositories, issues, and pull requests"],
       [key |-> "slack", name |-> "slack", display_name |-> "Slack",
        description |-> "Connect to Slack to send messages and manage channels"],
       [key |-> "google_ads", name |-> "google_ads", display_name |-> "Google Ads",
        description |-> "Connect to Google Ads to manage advertising campaigns"] >>

CatalogKeys == {SUPPORTED_CONNECTORS[i].key : i \in DOMAIN SUPPORTED_CONNECTORS}

\* `connector_name in SUPPORTED_CONNECTORS`
Supported(connector_name) == connector_name \in CatalogKeys

\* SUPPORTED_CONNECTORS[connector_name], for a key of the catalog.
Descriptor(connector_name) ==
    SUPPORTED_CONNECTORS[CHOOSE i \in DOMAIN SUPPORTED_CONNECTORS :
                            SUPPORTED_CONNECTORS[i].key = connector_name]

\* Connector keys a caller may pass: the catalog's, and two it does not have
\* (one of them the provider's connection name of a catalog entry).
ConnectorNames == CatalogKeys \cup {"jira", "github-WZZtcfBc"}

\* The user identifier the views pass: the session's user.
Users == {"usr_1"}

ConnectionNames == {SUPPORTED_CONNECTORS[i].name : i \in DOMAIN SUPPORTED_CONNECTORS}

\* The provider holds, per connection and user identifier, no account, an
\* account waiting for the user's authorization, or an authorized one.
NoAccounts == [k \in ConnectionNames \X Users |-> "NONE"]

\* How a provider call may end: with a response, with an exception, or (for
\* a lookup) with a response that has no connected_account.
Outcomes == {"ok", "error", "malformed"}
DeleteOutcomes == {"ok", "error"}

AccountId(connection_name, identifier) == <<"ca", connection_name, identifier>>

Returned(value, calls, accts) ==
    [raised |-> "none", message |-> <<>>, value |-> value, calls |-> calls, accounts |-> accts]

Raised(type, message, calls, accts) ==
    [raised |-> type, message |-> message, value |-> <<>>, calls |-> calls, accounts |-> accts]

\* Faulty variant: the provider is asked before the key is looked up in the catalog.
get_or_create_connected_account_Unchecked(accts, connector_name, user_identifier, outcome) ==
    LET name == IF Supported(connector_name) THEN Descriptor(connector_name).name
                ELSE connector_name
        calls == << <<"get_or_create_connected_account", name, user_identifier>> >>
    IN  IF ~Supported(connector_name) \/ outcome = "error"
        THEN Raised("Exception", <<"provider error">>, calls, accts)
        ELSE IF outcome = "malformed"
        THEN Raised("AttributeError", <<"'NoneType' object has no attribute 'id'">>, calls, accts)
        ELSE LET k == <<name, user_identifier>>
                 after == IF accts[k] = "NONE" THEN [accts EXCEPT ![k] = "PENDING"] ELSE accts
             IN  Returned([id |-> AccountId(name, user_identifier), status |-> after[k],
                           connector |-> connector_name], calls, after)

get_or_create_connected_account(accts, connector_name, user_identifier, outcome) ==
    IF ~Supported(connector_name)
    THEN Raised("ValueError", <<"Unsupported connector: ", connector_name>>, <<>>, accts)
    ELSE
      LET scalekit_connection_name == Descriptor(connector_name).name
          k == <<scalekit_connection_name, user_identifier>>
          calls == << <<"get_or_create_connected_account",
                        scalekit_connection_name, user_identifier>> >>
          after == IF accts[k] = "NONE" THEN [accts EXCEPT ![k] = "PENDING"] ELSE accts
      IN  IF outcome = "error"
          THEN Raised("Exception", <<"provider error">>, calls, accts)
          ELSE IF outcome = "malformed"
          THEN Raised("AttributeError", <<"'NoneType' object has no attribute 'id'">>,
                      calls, accts)
          ELSE Returned([id |-> AccountId(scalekit_connection_name, user_identifier),
                         status |-> after[k], connector |-> connector_name], calls, after)

get_authorization_link(accts, connector_name, user_identifier, outcome) ==
    IF ~Supported(connector_name)
    THEN Raised("ValueError", <<"Unsupported connector: ", connector_name>>, <<>>, accts)
    ELSE
      LET scalekit_connection_name == Descriptor(connector_name).name
          calls == << <<"get_authorization_link",
                        scalekit_connection_name, user_identifier>> >>
      IN  IF outcome = "error"
          THEN Raised("Exception", <<"provider error">>, calls, accts)
          ELSE IF outcome = "malformed"
          THEN Raised("AttributeError", <<"'NoneType' object has no attribute 'link'">>,
                      calls, accts)
          ELSE Returned(<<"link", scalekit_connection_name, user_identifier>>, calls, accts)

\* account['status'] == 'ACTIVE'
IsConnected(status) == status = "ACTIVE"

\* Faulty variant: a failed lookup is raised to the caller.
StatusOfFailure_Reraise(connector_name, e) ==
    Raised(e.raised, e.message, e.calls, e.accounts)

\* The except branch of get_connection_status: the record is built from the
\* catalog entry of connector_name, which raises KeyError when there is none.
StatusOfFailure(connector_name, e) ==
    IF ~Supported(connector_name)
    THEN Raised("KeyError", <<connector_name>>, e.calls, e.accounts)
    ELSE Returned([connector |-> connector_name,
                   display_name |-> Descriptor(connector_name).display_name,
                   description |-> Descriptor(connector_name).description,
                   connected |-> FALSE,
                   status |-> "ERROR",
                   error |-> e.message], e.calls, e.accounts)

get_connection_status(accts, connector_name, user_identifier, outcome) ==
    LET account == get_or_create_connected_account(accts, connector_name,
                                                   user_identifier, outcome)
    IN  IF account.raised = "none"
        THEN Returned([connector |-> connector_name,
                       display_name |-> Descriptor(connector_name).display_name,
                       description |-> Descriptor(connector_name).description,
                       connected |-> IsConnected(account.value.status),
                       status |-> account.value.status,
                       account_id |-> account.value.id],
                      account.calls, account.accounts)
        ELSE StatusOfFailure(connector_name, account)

\* for connector_name in SUPPORTED_CONNECTORS: statuses.append(...), from the
\* i-th catalog entry on; outcomes[i] is how the i-th provider call ends.
RECURSIVE StatusLoop(_, _, _, _, _, _)
StatusLoop(i, statuses, calls, accts, user_identifier, outcomes) ==
    IF i > Len(SUPPORTED_CONNECTORS)
    THEN Returned(statuses, calls, accts)
    ELSE LET status == get_connection_status(accts, SUPPORTED_CONNECTORS[i].key,
                                             user_identifier, outcomes[i])
         IN  IF status.raised # "none"
             THEN Raised(status.raised, status.message, calls \o status.calls, status.accounts)
             ELSE StatusLoop(i + 1, Append(statuses, status.value),
                             calls \o status.calls, status.accounts,
                             user_identifier, outcomes)

\* Faulty variant: the list ends before the first connector whose lookup failed.
get_all_connection_statuses_StopAtFailure(accts, user_identifier, outcomes) ==
    LET all == StatusLoop(1, <<>>, <<>>, accts, user_identifier, outcomes)
        ok == {j \in DOMAIN SUPPORTED_CONNECTORS : \A h \in 1 .. j : outcomes[h] = "ok"}
    IN  [all EXCEPT !.value = SubSeq(all.value, 1, Cardinality(ok))]

get_all_connection_statuses(accts, user_identifier, outcomes) ==
    StatusLoop(1, <<>>, <<>>, accts, user_identifier, outcomes)

\* Faulty variant: the account is deleted whether or not the lookup succeeded.
DeleteAfterLookup_Always(account) == TRUE

\* The delete call is reached only when the lookup before it did not raise.
DeleteAfterLookup(account) == account.raised = "none"

disconnect_account(accts, connector_name, user_identifier, outcome, delete_outcome) ==
    IF ~Supported(connector_name)
    THEN Raised("ValueError", <<"Unsupported connector: ", connector_name>>, <<>>, accts)
    ELSE
      LET scalekit_connection_name == Descriptor(connector_name).name
          k == <<scalekit_connection_name, user_identifier>>
          account == get_or_create_connected_account(accts, connector_name,
                                                     user_identifier, outcome)
          calls == Append(account.calls,
                          <<"delete_connected_account",
                            scalekit_connection_name, user_identifier>>)
      IN  IF ~DeleteAfterLookup(account)
          THEN Raised(account.raised, account.message, account.calls, account.accounts)
          ELSE IF delete_outcome = "error"
          THEN Raised("Exception", <<"provider error">>, calls, account.accounts)
          ELSE Returned([success |-> TRUE, connector |-> connector_name,
                         message |-> <<Descriptor(connector_name).display_name,
                                       " disconnected successfully">>],
                        calls, [account.accounts EXCEPT ![k] = "NONE"])

(***************************************************************************)
(* State.                                                                  *)
(*   session        the browser session's record in the session store      *)
(*   now            timezone.now(), in seconds                             *)
(*   issued_states  how many state values secrets.token_urlsafe has made   *)
(*   issued_tokens  how many token responses the provider has issued       *)
(*   consumed       the state values a successful callback has used        *)
(*   last           the last request served: what it was and what it did   *)
(*   flight         requests of the session that are in progress at once   *)
(*   accounts       the provider's connected accounts                      *)
(*   call           the last call of a service method: its arguments, how  *)
(*                  the provider answered and what the method returned     *)
(***************************************************************************)
VARIABLES session, now, issued_states, issued_tokens, consumed, last, flight,
          accounts, call

vars == <<session, now, issued_states, issued_tokens, consumed, last, flight,
          accounts, call>>

Reqs == {1, 2}

IdleRequest == [pc |-> "idle", cache |-> EmptySession, mw |-> "none"]

Idle == \A r \in Reqs : flight[r].pc = "idle"

NoRequest ==
    [kind |-> "none", pre_oauth_state |-> NONE, pre_access_token |-> NONE, mw |-> "none", mw_response |-> NONE,
     refresh |-> RaisedResponse, served_by |-> "none", status |-> 0, error |-> "none", calls |-> <<>>, raised |-> FALSE,
     logout_url |-> NONE, state |-> NONE, auth_url |-> NoUrl,
     presented |-> NONE, replay |-> FALSE,
     malformed |-> FALSE, organization_id |-> NONE, view_calls |-> <<>>]

NoCall == [op |-> "none"]

Init ==
    /\ session = EmptySession
    /\ now = 0
    /\ issued_states = 0
    /\ issued_tokens = 0
    /\ consumed = {}
    /\ last = NoRequest
    /\ flight = [r \in Reqs |-> IdleRequest]
    /\ accounts = NoAccounts
    /\ call = NoCall

(***************************************************************************)
(* One request served from start to end: the middleware, then the view     *)
(* (unless the middleware answered), then the session saved.               *)
(***************************************************************************)
\* What the provider may answer to the middleware's refresh call, if it makes one.
RefreshOutcomes(s, path) ==
    IF MiddlewareState(s, path, now) = "refresh" /\ issued_tokens < MaxTokens
    THEN RefreshResponses(issued_tokens + 1) \cup {RaisedResponse}
    ELSE {RaisedResponse}

\* What is remembered of a request: the state value and the access token
\* the store held when the request was saved, the middleware's finding and the
\* provider's answer to its refresh call, the view's response and provider
\* calls (raised: the view's last provider call raised), and for a callback
\* the state value presented (replay: one a successful callback already used),
\* for a login start or a switch the body posted (malformed, or its
\* organization_id), and the provider calls that the view itself made.
NoBody == [malformed |-> FALSE, organization_id |-> NONE]

Record(kind, mw, ro, res, raised, presented, body) ==
    [kind |-> kind, pre_oauth_state |-> session.oauth_state,
     pre_access_token |-> session.scalekit_tokens.access_token,
     mw |-> mw.outcome, mw_response |-> mw.response,
     refresh |-> IF mw.calls = <<>> THEN RaisedResponse ELSE ro,
     served_by |-> IF mw.response = NONE THEN "view" ELSE "middleware",
     status |-> res.status, error |-> res.error, calls |-> mw.calls \o res.calls,
     raised |-> raised, logout_url |-> res.logout_url, state |-> res.state,
     auth_url |-> res.auth_url, presented |-> presented,
     replay |-> presented \in consumed,
     malformed |-> body.malformed,
     organization_id |-> IF body.malformed THEN NONE ELSE DictGet(body.organization_id),
     view_calls |-> IF mw.response = NONE THEN res.calls ELSE <<>>]

\* A middleware that returns a response answers the request itself; when it
\* returns None the view runs.
Respond(mw, view) ==
    IF mw.response = NONE THEN view
    ELSE [Result(mw.session) EXCEPT !.status = mw.response]

Serve(kind, mw, ro, view, raised, presented, exchanged, body) ==
    LET res == Respond(mw, view) IN
    /\ session' = res.session
    /\ last' = Record(kind, mw, ro, res, raised, presented, body)
    /\ issued_tokens' = issued_tokens
                        + (IF mw.outcome = "refreshed" THEN 1 ELSE 0)
                        + (IF exchanged THEN 1 ELSE 0)
    /\ issued_states' = IF res.state # NONE \/ "authorization_url" \in
                             {res.calls[i] : i \in DOMAIN res.calls}
                        THEN issued_states + 1 ELSE issued_states
    /\ consumed' = IF kind = "callback" /\ res.status = 200
                   THEN consumed \cup {presented} ELSE consumed
    /\ UNCHANGED <<now, flight, accounts, call>>

AuthUrlBodies ==
    { [malformed |-> TRUE, organization_id |-> ABSENT, prompt |-> "None"],
      [malformed |-> FALSE, organization_id |-> ABSENT, prompt |-> "None"],
      [malformed |-> FALSE, organization_id |-> 1, prompt |-> "select_account"] }

SwitchBodies ==
    { [malformed |-> TRUE, organization_id |-> ABSENT] }
    \cup [malformed : {FALSE}, organization_id : {ABSENT, NONE, EMPTY, 2}]

\* POST /api/auth/url
LoginStart ==
    /\ Idle
    /\ issued_states < MaxStates
    /\ \E body \in AuthUrlBodies, url_raises \in BOOLEAN,
          ro \in RefreshOutcomes(session, PathOf("auth_url")) :
         LET mw == process_request(session, PathOf("auth_url"), now, ro)
             res == get_auth_url_view(mw.session, body, issued_states + 1, url_raises)
         IN  Serve("auth_url", mw, ro, res, url_raises /\ ~body.malformed, NONE, FALSE, body)

\* POST /api/auth/switch-org
SwitchOrganization ==
    /\ Idle
    /\ issued_states < MaxStates
    /\ \E body \in SwitchBodies, url_raises \in BOOLEAN,
          ro \in RefreshOutcomes(session, PathOf("switch_org")) :
         LET mw == process_request(session, PathOf("switch_org"), now, ro)
             res == switch_organization_view(mw.session, body, issued_states + 1, url_raises)
         IN  Serve("switch_org", mw, ro, res,
                   url_raises /\ "authorization_url" \in {res.calls[i] : i \in DOMAIN res.calls},
                   NONE, FALSE, body)

\* The bodies a client may post to the callback: any state value issued so
\* far (or none, or an empty one), with or without a code and an error.
CallbackBodies ==
    { [malformed |-> TRUE, state |-> ABSENT, code |-> ABSENT, error |-> ABSENT] }
    \cup [malformed : {FALSE}, state : {ABSENT, EMPTY} \cup (1 .. issued_states),
          code : {ABSENT, 1}, error : {ABSENT, 1}]

\* Whether callback_view gets as far as the code exchange.
ReachesExchange(s, body) ==
    /\ ~body.malformed
    /\ ~StateRejected(DictGet(body.state), s.oauth_state)
    /\ ~Truthy(body.error)
    /\ Truthy(body.code)

ExchangeOutcomes(s, body) ==
    IF ReachesExchange(s, body) /\ issued_tokens < MaxTokens
    THEN ExchangeResponses(issued_tokens + 1) \cup {RaisedResponse}
    ELSE {RaisedResponse}

ClaimOutcomes(exch) == IF exch.raised THEN {RaisedClaims} ELSE ClaimSets \cup {RaisedClaims}

\* POST /api/auth/callback
Callback ==
    /\ Idle
    /\ \E body \in CallbackBodies,
          ro \in RefreshOutcomes(session, PathOf("callback")) :
         \E exch \in ExchangeOutcomes(session, body) :
           \E user_info \in ClaimOutcomes(exch) :
             LET mw == process_request(session, PathOf("callback"), now, ro)
                 res == callback_view(mw.session, body, exch, user_info, now)
             IN  Serve("callback", mw, ro, res,
                       ReachesExchange(session, body) /\ (exch.raised \/ user_info.raised),
                       IF body.malformed THEN NONE ELSE DictGet(body.state),
                       ReachesExchange(session, body) /\ ~exch.raised, NoBody)

\* GET /api/auth/user
UserInfo ==
    /\ Idle
    /\ \E ro \in RefreshOutcomes(session, PathOf("user")) :
         LET mw == process_request(session, PathOf("user"), now, ro)
             res == user_info_view(mw.session)
         IN  Serve("user", mw, ro, res, FALSE, NONE, FALSE, NoBody)

\* POST /api/auth/logout
Logout ==
    /\ Idle
    /\ \E logout_raises \in BOOLEAN,
          ro \in RefreshOutcomes(session, PathOf("logout")) :
         LET mw == process_request(session, PathOf("logout"), now, ro)
             res == logout_view(mw.session, logout_raises)
         IN  Serve("logout", mw, ro, res,
                   logout_raises /\ res.calls = <<"logout">>, NONE, FALSE, NoBody)

\* GET /api/health
HealthCheck ==
    /\ Idle
    /\ \E ro \in RefreshOutcomes(session, PathOf("health")) :
         LET mw == process_request(session, PathOf("health"), now, ro)
             res == health_check_view(mw.session)
         IN  Serve("health", mw, ro, res, FALSE, NONE, FALSE, NoBody)

\* Time passes.
Tick ==
    /\ now + TickStep <= MaxNow
    /\ now' = now + TickStep
    /\ UNCHANGED <<session, issued_states, issued_tokens, consumed, last, flight,
                   accounts, call>>

Next ==
    \/ LoginStart
    \/ SwitchOrganization
    \/ Callback
    \/ UserInfo
    \/ Logout
    \/ HealthCheck
    \/ Tick

Spec == Init /\ [][Next]_vars

(***************************************************************************)
(* Two requests of the same browser session in progress at once.  Each     *)
(* loads the session from the store when the middleware first reads it,    *)
(* works on its own copy, and saves the copy with its response             *)
(* (SESSION_ENGINE is the database backend: no lock, the last save wins).  *)
(* The requests are GET /api/auth/user of a logged-in session.             *)
(***************************************************************************)
\* The session is loaded and process_request runs up to the refresh call.
BeginRequest(r) ==
    /\ flight[r].pc = "idle"
    /\ session.scalekit_user.present
    /\ LET st == MiddlewareState(session, PathOf("user"), now)
       IN  flight' = [flight EXCEPT ![r] =
              [pc |-> IF st = "refresh" THEN "refreshing" ELSE "view",
               cache |-> session, mw |-> st]]
    /\ UNCHANGED <<session, now, issued_states, issued_tokens, consumed, last,
                   accounts, call>>

\* The provider answers the refresh call; process_request ends.
RefreshReturns(r) ==
    /\ flight[r].pc = "refreshing"
    /\ \E ro \in (IF issued_tokens < MaxTokens
                  THEN RefreshResponses(issued_tokens + 1) ELSE {}) \cup {RaisedResponse} :
         LET a == ApplyRefresh(flight[r].cache, ro, now)
         IN  /\ flight' = [flight EXCEPT ![r] =
                    [pc |-> "view", cache |-> a.session, mw |-> a.outcome]]
             /\ issued_tokens' = IF a.outcome = "refreshed"
                                 THEN issued_tokens + 1 ELSE issued_tokens
    /\ UNCHANGED <<session, now, issued_states, consumed, last, accounts, call>>

\* The view runs and the request's session is saved with the response.
FinishRequest(r) ==
    /\ flight[r].pc = "view"
    /\ LET f == flight[r]
           mw == [session |-> f.cache, outcome |-> f.mw, response |-> NONE,
                  calls |-> IF f.mw \in {"refreshed", "refresh_failed"}
                            THEN <<"refresh">> ELSE <<>>]
           res == Respond(mw, user_info_view(f.cache))
       IN  /\ session' = res.session
           /\ last' = Record("user", mw, RaisedResponse, res, FALSE, NONE, NoBody)
    /\ flight' = [flight EXCEPT ![r] = IdleRequest]
    /\ UNCHANGED <<now, issued_states, issued_tokens, consumed, accounts, call>>

ConcNext ==
    \/ LoginStart
    \/ Callback
    \/ Tick
    \/ \E r \in Reqs : BeginRequest(r)
    \/ \E r \in Reqs : RefreshReturns(r)
    \/ \E r \in Reqs : FinishRequest(r)

ConcSpec == Init /\ [][ConcNext]_vars

(***************************************************************************)
(* The handlers over every content the session store can hand them: the    *)
(* three keys each set or not, whatever wrote them.                        *)
(***************************************************************************)
StoredUser == [present |-> TRUE, sub |-> 1, current_organization_id |-> 1]

StoredTokens ==
    [present |-> TRUE, access_token |-> 1, refresh_token |-> 1, id_token |-> 1,
     expires_at |-> Isoformat(61), expires_in |-> 61]

HandlerInit ==
    /\ session \in [oauth_state : {NONE, 1}, scalekit_user : {NoUser, StoredUser},
                    scalekit_tokens : {NoTokens, StoredTokens}]
    /\ now = 0
    /\ issued_states = 1
    /\ issued_tokens = 1
    /\ consumed = {}
    /\ last = NoRequest
    /\ flight = [r \in Reqs |-> IdleRequest]
    /\ accounts = NoAccounts
    /\ call = NoCall

HandlerSpec == HandlerInit /\ [][Next]_vars

(***************************************************************************)
(* The connector service called by the connector views for a user, against *)
(* a provider whose calls may fail.                                        *)
(***************************************************************************)
\* What is remembered of a call of a service method that ended as r.
CallRecord(op, connector_name, user_identifier, outcome, outcomes, delete_outcome, r) ==
    [op |-> op, connector_name |-> connector_name,
     user_identifier |-> user_identifier, outcome |-> outcome,
     outcomes |-> outcomes, delete_outcome |-> delete_outcome,
     raised |-> r.raised, message |-> r.message, value |-> r.value,
     calls |-> r.calls]

GetOrCreateConnectedAccount ==
    \E connector_name \in ConnectorNames, user_identifier \in Users, outcome \in Outcomes :
        LET r == get_or_create_connected_account(accounts, connector_name,
                                                 user_identifier, outcome)
        IN  /\ call' = CallRecord("get_or_create_connected_account", connector_name,
                                  user_identifier, outcome, <<>>, "none", r)
            /\ accounts' = r.accounts
            /\ UNCHANGED <<session, now, issued_states, issued_tokens, consumed, last, flight>>

GetAuthorizationLink ==
    \E connector_name \in ConnectorNames, user_identifier \in Users, outcome \in Outcomes :
        LET r == get_authorization_link(accounts, connector_name, user_identifier, outcome)
        IN  /\ call' = CallRecord("get_authorization_link", connector_name,
                                  user_identifier, outcome, <<>>, "none", r)
            /\ accounts' = r.accounts
            /\ UNCHANGED <<session, now, issued_states, issued_tokens, consumed, last, flight>>

GetConnectionStatus ==
    \E connector_name \in ConnectorNames, user_identifier \in Users, outcome \in Outcomes :
        LET r == get_connection_status(accounts, connector_name, user_identifier, outcome)
        IN  /\ call' = CallRecord("get_connection_status", connector_name,
                                  user_identifier, outcome, <<>>, "none", r)
            /\ accounts' = r.accounts
            /\ UNCHANGED <<session, now, issued_states, issued_tokens, consumed, last, flight>>

GetAllConnectionStatuses ==
    \E user_identifier \in Users,
       outcomes \in [DOMAIN SUPPORTED_CONNECTORS -> Outcomes] :
        LET r == get_all_connection_statuses(accounts, user_identifier, outcomes)
        IN  /\ call' = CallRecord("get_all_connection_statuses", "none",
                                  user_identifier, "none", outcomes, "none", r)
            /\ accounts' = r.accounts
            /\ UNCHANGED <<session, now, issued_states, issued_tokens, consumed, last, flight>>

DisconnectAccount ==
    \E connector_name \in ConnectorNames, user_identifier \in Users,
       outcome \in Outcomes, delete_outcome \in DeleteOutcomes :
        LET r == disconnect_account(accounts, connector_name, user_identifier,
                                    outcome, delete_outcome)
        IN  /\ call' = CallRecord("disconnect_account", connector_name,
                                  user_identifier, outcome, <<>>, delete_outcome, r)
            /\ accounts' = r.accounts
            /\ UNCHANGED <<session, now, issued_states, issued_tokens, consumed, last, flight>>

\* The user follows the authorization link and grants access: at the
\* provider the pending account becomes active.
Authorize ==
    /\ \E k \in DOMAIN accounts :
         /\ accounts[k] = "PENDING"
         /\ accounts' = [accounts EXCEPT ![k] = "ACTIVE"]
    /\ UNCHANGED <<session, now, issued_states, issued_tokens, consumed, last, flight, call>>

ConnectorNext ==
    \/ GetOrCreateConnectedAccount
    \/ GetAuthorizationLink
    \/ GetConnectionStatus
    \/ GetAllConnectionStatuses
    \/ DisconnectAccount
    \/ Authorize

ConnectorSpec == Init /\ [][ConnectorNext]_vars

(***************************************************************************)
(* Two computations of the views, each applied to every input of a bounded  *)
(* set: the is_current marking of user_info_view and the display name of    *)
(* callback_view.                                                           *)
(***************************************************************************)
MaxOrgs == 2

\* The ids an organization of the provider's list can carry: org.get('id')
\* is None for an entry without one.
OrgIds == {NONE, 1, 2}

\* The lists get_authenticated_organizations can return: one entry per
\* membership the provider reports, whatever their ids.
OrganizationLists ==
    UNION {[1 .. n -> [id : OrgIds]] : n \in 0 .. MaxOrgs}

\* for org in orgs: org['is_current'] = (org.get('id') == current_org_id)
MarkCurrent(orgs, current_org_id) ==
    [i \in DOMAIN orgs |->
        [id |-> orgs[i].id, is_current |-> orgs[i].id = current_org_id]]

\* The organizations of the user info response.
UserOrganizations(user_data, orgs) ==
    LET user_id == user_data.sub
        current_org_id == user_data.current_organization_id
    IN  IF Truthy(user_id) THEN MarkCurrent(orgs, current_org_id) ELSE <<>>

\* Every variable but `call` as it is after construction.
NothingElse ==
    /\ session = EmptySession
    /\ now = 0
    /\ issued_states = 0
    /\ issued_tokens = 0
    /\ consumed = {}
    /\ last = NoRequest
    /\ flight = [r \in Reqs |-> IdleRequest]
    /\ accounts = NoAccounts

OrgListInit ==
    /\ call \in [op : {"input"},
                 user_data : [present : {TRUE}, sub : {NONE, 1},
                              current_organization_id : OrgIds],
                 orgs : OrganizationLists]
    /\ NothingElse

MarkOrganizations ==
    /\ call.op = "input"
    /\ call' = [op |-> "user_info_view", user_data |-> call.user_data, orgs |-> call.orgs,
                organizations |-> UserOrganizations(call.user_data, call.orgs)]
    /\ UNCHANGED <<session, now, issued_states, issued_tokens, consumed, last, flight,
                   accounts>>

OrgListSpec == OrgListInit /\ [][MarkOrganizations]_vars

\* Python values of the user object and of the claims: a key that is not
\* there, None, or a string (the sequence of its pieces; " " is a blank).
Absent == [t |-> "absent", s |-> <<>>]
None == [t |-> "none", s |-> <<>>]
Str(s) == [t |-> "str", s |-> s]

\* d.get(key) and d.get(key, default)
Get(v) == IF v = Absent THEN None ELSE v
GetDefault(v, d) == IF v = Absent THEN d ELSE v

\* bool(v)
IsTrue(v) == v.t = "str" /\ v.s # <<>>

\* a or b
Or(a, b) == IF IsTrue(a) THEN a ELSE b

\* The text an f-string puts for v.
Format(v) == IF v.t = "none" THEN <<"None">> ELSE v.s

\* str.strip()
RECURSIVE LStrip(_)
LStrip(s) == IF s # <<>> /\ Head(s) = " " THEN LStrip(Tail(s)) ELSE s

RECURSIVE RStrip(_)
RStrip(s) ==
    IF s # <<>> /\ s[Len(s)] = " " THEN RStrip(SubSeq(s, 1, Len(s) - 1)) ELSE s

Strip(s) == RStrip(LStrip(s))

\* The name callback_view stores in the SessionRecord.
DisplayName(user_obj, user_info) ==
    LET name1 == Or(Get(user_obj.name), GetDefault(user_obj.username, Str(<<>>)))
        given_name == GetDefault(user_obj.givenName, Str(<<>>))
        family_name == GetDefault(user_obj.familyName, Str(<<>>))
        name2 == IF IsTrue(name1) THEN name1
                 ELSE IF IsTrue(given_name) \/ IsTrue(family_name)
                 THEN Str(Strip(Format(given_name) \o <<" ">> \o Format(family_name)))
                 ELSE Or(Get(user_info.name),
                         GetDefault(user_info.preferred_username, Str(<<>>)))
    IN  IF IsTrue(name2) THEN name2 ELSE GetDefault(user_obj.email, Str(<<>>))

\* The values a field of the provider's user object or claims may have.
Texts(word) == {Absent, Str(<<>>), Str(<<word>>)}
NameParts(word) == {Absent, None, Str(<<>>), Str(<<" ">>), Str(<<word>>)}

NameInit ==
    /\ call \in [op : {"input"},
                 user_obj : [name : Texts("Ada King"), username : Texts("ada"),
                             givenName : NameParts("Ada"),
                             familyName : NameParts("Lovelace"),
                             email : Texts("ada@example.com")],
                 user_info : [name : Texts("A. Lovelace"),
                              preferred_username : Texts("countess")]]
    /\ NothingElse

DeriveName ==
    /\ call.op = "input"
    /\ call' = [op |-> "callback_view", user_obj |-> call.user_obj,
                user_info |-> call.user_info,
                name |-> DisplayName(call.user_obj, call.user_info)]
    /\ UNCHANGED <<session, now, issued_states, issued_tokens, consumed, last, flight,
                   accounts>>

NameSpec == NameInit /\ [][DeriveName]_vars

(***************************************************************************)
(* The organization list of the callback response and of the user info     *)
(* response, against the provider's user directory.  The users API is      *)
(* addressed by a user id; GET /api/v1/users/{key} answers with the user's  *)
(* memberships for the id of a user and with an HTTP error for any other    *)
(* key.                                                                     *)
(***************************************************************************)
\* A user id ('usr_...') and an access token (a JWT), as keys of a request.
UserId(n) == <<"usr", n>>
AccessToken(n) == <<"jwt", n>>

\* The second get_user_organizations of the class, the one in effect: it
\* reads the memberships of user_id; raise_for_status() raises on an HTTP
\* error and the except branch returns [].
get_user_organizations(user_id, directory) ==
    IF user_id \in DOMAIN directory THEN directory[user_id] ELSE <<>>

get_authenticated_organizations(user_id, directory) ==
    get_user_organizations(user_id, directory)

\* organizations = client.get_user_organizations(access_token)
CallbackOrganizations(token_response, directory) ==
    get_user_organizations(AccessToken(token_response.access_token), directory)

\* The provider's directory: the memberships of the user who logs in.
Directories == {[k \in {UserId(1)} |-> orgs] : orgs \in OrganizationLists}

OrgLookupInit ==
    /\ call \in [op : {"input"},
                 token_response : [access_token : {1, 2}, user_id : {1}],
                 claims : ClaimSets,
                 directory : Directories]
    /\ NothingElse

\* A callback succeeds: the response carries the organizations, the session
\* the user.
CallbackReturns ==
    /\ call.op = "input"
    /\ call' = [op |-> "callback_view", token_response |-> call.token_response,
                claims |-> call.claims, directory |-> call.directory,
                user_data |-> [present |-> TRUE, sub |-> call.token_response.user_id,
                               current_organization_id |-> CurrentOrgId(call.claims)],
                organizations |-> CallbackOrganizations(call.token_response,
                                                        call.directory)]
    /\ UNCHANGED <<session, now, issued_states, issued_tokens, consumed, last, flight,
                   accounts>>

\* The user info query of the session right afterwards.
UserInfoReturns ==
    /\ call.op = "callback_view"
    /\ call' = [op |-> "user_info_view", token_response |-> call.token_response,
                claims |-> call.claims, directory |-> call.directory,
                user_data |-> call.user_data,
                callback_organizations |-> call.organizations,
                organizations |->
                    UserOrganizations(call.user_data,
                        get_authenticated_organizations(UserId(call.user_data.sub),
                                                        call.directory))]
    /\ UNCHANGED <<session, now, issued_states, issued_tokens, consumed, last, flight,
                   accounts>>

OrgLookupSpec == OrgLookupInit /\ [][CallbackReturns \/ UserInfoReturns]_vars

(***************************************************************************)
(* callback_view applied to one request: any session the store may hold,   *)
(* any body, any answer of the provider to the exchange and any set of      *)
(* organization claims in the validated token.                              *)
(***************************************************************************)
\* The sessions a callback may find: with or without a state value pending,
\* anonymous or logged in.
CallbackSessions ==
    { [oauth_state |-> st, scalekit_user |-> su.user, scalekit_tokens |-> su.tokens] :
        st \in {NONE, 1, 2},
        su \in { [user |-> NoUser, tokens |-> NoTokens],
                 [user |-> StoredUser, tokens |-> StoredTokens] } }

PostedBodies ==
    { [malformed |-> TRUE, state |-> ABSENT, code |-> ABSENT, error |-> ABSENT] }
    \cup [malformed : {FALSE}, state : {ABSENT, EMPTY, 1, 2},
          code : {ABSENT, 1}, error : {ABSENT, 1}]

\* user_info.get(...) of each organization claim: None, an empty value or an id.
OrgClaimSets ==
    [raised : {FALSE}, oid : {NONE, EMPTY, 1}, org_id : {NONE, EMPTY, 2},
     organization_id : {NONE, EMPTY, 3}]

CallbackInit ==
    /\ call \in [op : {"input"}, session : CallbackSessions, body : PostedBodies,
                 exch : ExchangeResponses(2) \cup {RaisedResponse},
                 user_info : OrgClaimSets \cup {RaisedClaims}]
    /\ NothingElse

\* POST /api/auth/callback: the middleware, then the view.
ApplyCallback ==
    /\ call.op = "input"
    /\ LET mw == process_request(call.session, PathOf("callback"), now, RaisedResponse)
       IN  call' = [op |-> "callback_view", session |-> call.session, body |-> call.body,
                    exch |-> call.exch, user_info |-> call.user_info,
                    mw |-> mw.outcome,
                    result |-> callback_view(mw.session, call.body, call.exch,
                                             call.user_info, now)]
    /\ UNCHANGED <<session, now, issued_states, issued_tokens, consumed, last, flight,
                   accounts>>

CallbackSpec == CallbackInit /\ [][ApplyCallback]_vars

(***************************************************************************)
(* process_request applied to a request at time t, and then to the next    *)
(* request of the same session at time t2: any session record the store may *)
(* hold, well-formed or not.                                                *)
(***************************************************************************)
\* Token bundles as a store may hold them: none, a well-formed one, one with
\* no expires_at, with an expires_at that does not parse, with a Z suffix or
\* no offset, and one with no refresh token.
MiddlewareBundles ==
    { NoTokens, StoredTokens,
      [StoredTokens EXCEPT !.expires_at = NoExpiry],
      [StoredTokens EXCEPT !.expires_at = <<61, "garbage">>],
      [StoredTokens EXCEPT !.expires_at = <<61, "Z">>],
      [StoredTokens EXCEPT !.expires_at = <<61, "">>],
      [StoredTokens EXCEPT !.refresh_token = NONE] }

EvalTimes == {0, 1, 2}

MiddlewareInit ==
    /\ call \in [op : {"input"},
                 session : [oauth_state : {NONE, 1}, scalekit_user : {NoUser, StoredUser},
                            scalekit_tokens : MiddlewareBundles],
                 path : {PathOf(kind) : kind \in Kinds},
                 t : EvalTimes,
                 resp : RefreshResponses(2) \cup {RaisedResponse}]
    /\ NothingElse

\* The middleware handles a request.
Evaluate ==
    /\ call.op = "input"
    /\ call' = [op |-> "process_request", session |-> call.session, path |-> call.path,
                t |-> call.t, resp |-> call.resp,
                result |-> process_request(call.session, call.path, call.t, call.resp)]
    /\ UNCHANGED <<session, now, issued_states, issued_tokens, consumed, last, flight,
                   accounts>>

\* The middleware handles the next request of the session it left.
EvaluateAgain ==
    /\ call.op = "process_request"
    /\ \E t2 \in {call.t, call.t + 1}, path2 \in {PathOf("user"), PathOf("logout")},
          resp2 \in {[call.resp EXCEPT !.access_token = IF @ = ABSENT THEN @ ELSE 3],
                     RaisedResponse} :
         call' = [op |-> "next_request", first |-> call, path |-> path2, t |-> t2,
                  result |-> process_request(call.result.session, path2, t2, resp2)]
    /\ UNCHANGED <<session, now, issued_states, issued_tokens, consumed, last, flight,
                   accounts>>

MiddlewareSpec == MiddlewareInit /\ [][Evaluate \/ EvaluateAgain]_vars

(***************************************************************************)
(* Properties.                                                             *)
(***************************************************************************)
Calls(r) == {r.calls[i] : i \in DOMAIN r.calls}

\* This step served a request of the given kind from start to end.
Served(kind) == last'.kind = kind /\ UNCHANGED <<now, flight>>

ServedAny == last'.kind \in Kinds /\ UNCHANGED <<now, flight>>

\* C1: a state value completes at most one callback: after a successful
\* callback the session holds no OAuthState, and a callback that presents a
\* state value an earlier callback succeeded with is rejected with the
\* invalid-state error (400) before any code exchange.
C1_StateSingleUse ==
    /\ (last.kind = "callback" /\ last.status = 200) => session.oauth_state = NONE
    /\ (last.kind = "callback" /\ last.replay) =>
          /\ last.status = 400
          /\ last.error = "invalid_state"
          /\ "exchange" \notin Calls(last)

C1_Witness ==
    /\ last.kind = "callback"
    /\ last.replay
    /\ last.pre_oauth_state # NONE
    /\ last.status = 400

\* C2: after any callback on a session that holds an OAuthState, the session
\* no longer holds that OAuthState, whatever the outcome.
C2_CallbackAlwaysConsumesState ==
    (last.kind = "callback" /\ last.pre_oauth_state # NONE)
        => session.oauth_state # last.pre_oauth_state

\* C3 as stated: on a non-exempt path an authenticated session's request
\* makes a refresh call if and only if now + 60 s >= expires_at.
C3_RefreshIffExpiring ==
    [][(ServedAny /\ session.scalekit_user.present /\ session.scalekit_tokens.present
            /\ ~SkippedPath(PathOf(last'.kind)))
        => ("refresh" \in Calls(last')
              <=> now + 60 >= session.scalekit_tokens.expires_at[1])]_vars

\* C3 amended: the refresh call is made if and only if now + 60 s >= expires_at
\* and the bundle holds a non-empty refresh token.
C3_RefreshIffExpiringWithToken ==
    [][(ServedAny /\ session.scalekit_user.present /\ session.scalekit_tokens.present
            /\ ~SkippedPath(PathOf(last'.kind)))
        => ("refresh" \in Calls(last')
              <=> /\ now + 60 >= session.scalekit_tokens.expires_at[1]
                  /\ session.scalekit_tokens.refresh_token >= 1)]_vars

C3_Witness ==
    /\ last.kind = "user"
    /\ last.mw = "refreshed"
    /\ "refresh" \in Calls(last)

\* C4: while handling login start, callback or logout the middleware never
\* makes a refresh call and never writes the token bundle.
C4_AuthEndpointsExempt ==
    last.kind \in {"auth_url", "callback", "logout"}
        => "refresh" \notin Calls(last) /\ last.mw # "refreshed"

\* C6: when a refresh attempt fails (no refresh token, or the provider call
\* raises) the token bundle and the SessionRecord are what they were before
\* the request, and the middleware lets the request continue to the view.
C6_FailedRefreshLeavesSession ==
    [][(ServedAny /\ last'.mw \in {"no_refresh_token", "refresh_failed"})
        => /\ session'.scalekit_tokens = session.scalekit_tokens
           /\ session'.scalekit_user = session.scalekit_user
           /\ session'.scalekit_user.present
           /\ last'.mw_response = NONE
           /\ last'.served_by = "view"]_vars

C6_Witness ==
    /\ last.mw = "refresh_failed"
    /\ "refresh" \in Calls(last)
    /\ last.refresh.raised
    /\ session.scalekit_tokens.present

\* C7: a successful refresh whose response has no (or an empty) refresh
\* token keeps the stored refresh token; one whose response has no expires_in
\* stores expires_in 3600 and expires_at = refresh time + 3600 s.
C7_RefreshDefaults ==
    [][(ServedAny /\ last'.mw = "refreshed")
        => /\ last'.refresh.refresh_token \in {ABSENT, EMPTY}
                => session'.scalekit_tokens.refresh_token
                     = session.scalekit_tokens.refresh_token
           /\ last'.refresh.expires_in = ABSENT
                => /\ session'.scalekit_tokens.expires_in = 3600
                   /\ session'.scalekit_tokens.expires_at[1] = now + 3600]_vars

C7_Witness ==
    /\ last.mw = "refreshed"
    /\ last.refresh.refresh_token = EMPTY
    /\ last.refresh.expires_in = ABSENT
    /\ session.scalekit_tokens.expires_in = 3600

\* C8: logout of an authenticated session always succeeds locally: the
\* response is a success, the session then holds no SessionRecord, token
\* bundle or OAuthState, and the logout URL is absent when the provider call
\* raised.
C8_LogoutAlwaysSucceeds ==
    [][(Served("logout") /\ session.scalekit_user.present)
        => /\ last'.status = 200
           /\ session' = EmptySession
           /\ last'.raised => last'.logout_url = NONE
           /\ (~last'.raised /\ "logout" \in Calls(last')) => last'.logout_url # NONE]_vars

C8_Witness ==
    /\ last.kind = "logout"
    /\ last.status = 200
    /\ last.raised
    /\ last.logout_url = NONE
    /\ session = EmptySession

DoubleRefresh ==
    /\ flight[1].pc = "refreshing"
    /\ flight[2].pc = "refreshing"
    /\ flight[1].cache.scalekit_tokens = flight[2].cache.scalekit_tokens

\* A save has replaced the stored bundle by an older one.
StaleBundleSaved ==
    /\ last.pre_access_token >= 1
    /\ session.scalekit_tokens.present
    /\ session.scalekit_tokens.access_token < last.pre_access_token

\* C5: two interleaving requests of one session never both issue a refresh
\* call for the same stale bundle, and the session's final token bundle is
\* never an older refresh result written over a fresher one.
C5_NoRacingRefresh == ~DoubleRefresh /\ ~StaleBundleSaved

\* C9: a logout on a session that holds a SessionRecord but no token bundle
\* makes no provider call, clears the whole session and returns success with
\* a null logout URL.
C9_LogoutWithoutTokens ==
    [][(Served("logout") /\ session.scalekit_user.present
            /\ ~session.scalekit_tokens.present)
        => /\ last'.calls = <<>>
           /\ session' = EmptySession
           /\ last'.status = 200
           /\ last'.logout_url = NONE]_vars

C9_Witness ==
    /\ last.kind = "logout"
    /\ last.status = 200
    /\ last.calls = <<>>
    /\ last.logout_url = NONE
    /\ session = EmptySession

\* The session as the refresh middleware hands it to the view of this step.
AfterMiddleware(kind) == process_request(session, PathOf(kind), now, last'.refresh).session

\* C11 as stated: an organization switch on an authenticated session whose
\* organization_id is absent, null or empty is answered 400 missing-parameter,
\* the request makes no provider call and the session is left unchanged.
C11_SwitchWithoutOrganization ==
    [][(Served("switch_org") /\ session.scalekit_user.present
            /\ ~last'.malformed /\ ~Truthy(last'.organization_id))
        => /\ last'.status = 400
           /\ last'.error = "missing_parameter"
           /\ last'.calls = <<>>
           /\ session' = session]_vars

\* C11 amended: the request is answered 400 missing-parameter, the view makes
\* no provider call and writes nothing: SessionRecord and OAuthState are
\* unchanged, and the only provider call and the only change of the token
\* bundle are the refresh the middleware makes before the view when the
\* bundle is expiring.
C11_SwitchWithoutOrganizationInView ==
    [][(Served("switch_org") /\ session.scalekit_user.present
            /\ ~last'.malformed /\ ~Truthy(last'.organization_id))
        => /\ last'.status = 400
           /\ last'.error = "missing_parameter"
           /\ last'.view_calls = <<>>
           /\ Calls(last') \subseteq {"refresh"}
           /\ session'.scalekit_user = session.scalekit_user
           /\ session'.oauth_state = session.oauth_state
           /\ session' = AfterMiddleware("switch_org")
           /\ ("refresh" \notin Calls(last') => session' = session)]_vars

C11_Witness ==
    /\ last.kind = "switch_org"
    /\ last.organization_id = EMPTY
    /\ last.status = 400
    /\ last.error = "missing_parameter"
    /\ last.mw = "refreshed"
    /\ session.scalekit_user.present

\* C12 as stated: an organization switch changes no field of the
\* SessionRecord or of the token bundle, it only issues a new OAuthState and
\* an authorization URL with prompt=select_account and the requested
\* organization_id; current_organization_id changes only by a successful
\* callback.
C12_SwitchOnlyIssuesState ==
    [][/\ Served("switch_org")
            => /\ session'.scalekit_user = session.scalekit_user
               /\ session'.scalekit_tokens = session.scalekit_tokens
               /\ last'.status = 200
                    => /\ last'.state = issued_states + 1
                       /\ session'.oauth_state = last'.state
                       /\ last'.auth_url = [state |-> last'.state,
                                            organization_id |-> last'.organization_id,
                                            prompt |-> "select_account"]
       /\ session'.scalekit_user.current_organization_id
              # session.scalekit_user.current_organization_id
            => Served("callback") /\ last'.status = 200]_vars

\* C12 amended: the switch view changes no field of the SessionRecord or of
\* the token bundle (the bundle changes in a switch request only by the
\* middleware's refresh before the view); a successful switch issues a new
\* OAuthState and an authorization URL with prompt=select_account and the
\* requested organization_id; current_organization_id changes only by a
\* successful callback, or is removed with the SessionRecord by a logout.
C12_SwitchViewOnlyIssuesState ==
    [][/\ Served("switch_org")
            => /\ session'.scalekit_user = session.scalekit_user
               /\ session'.scalekit_tokens = AfterMiddleware("switch_org").scalekit_tokens
               /\ last'.status = 200
                    => /\ last'.state = issued_states + 1
                       /\ session'.oauth_state = last'.state
                       /\ last'.auth_url = [state |-> last'.state,
                                            organization_id |-> last'.organization_id,
                                            prompt |-> "select_account"]
       /\ session'.scalekit_user.current_organization_id
              # session.scalekit_user.current_organization_id
            => \/ Served("callback") /\ last'.status = 200
               \/ Served("logout") /\ last'.status = 200 /\ session' = EmptySession]_vars

C12_Witness ==
    /\ last.kind = "switch_org"
    /\ last.status = 200
    /\ last.organization_id = 2
    /\ last.auth_url.prompt = "select_account"
    /\ session.oauth_state = last.state
    /\ session.scalekit_user.current_organization_id = 1

\* The provider's account that a call of the service is about.
AccountOf(c) == <<Descriptor(c.connector_name).name, c.user_identifier>>

\* The message of the exception a failed lookup raises.
LookupFailure(outcome) ==
    IF outcome = "error" THEN <<"provider error">>
    ELSE <<"'NoneType' object has no attribute 'id'">>

\* This step is a call of the given service method.
Called(op) == call'.op = op /\ ~Authorize

\* The status record of catalog entry d for a lookup that ended as outcome,
\* the provider holding the account in provider_status.
WellFormedStatus(status, d, outcome, provider_status, user_identifier) ==
    /\ status.connector = d.key
    /\ status.display_name = d.display_name
    /\ status.description = d.description
    /\ status.connected \in BOOLEAN
    /\ status.connected <=> status.status = "ACTIVE"
    /\ outcome # "ok"
         => /\ DOMAIN status = {"connector", "display_name", "description",
                                "connected", "status", "error"}
            /\ status.connected = FALSE
            /\ status.status = "ERROR"
            /\ status.error = LookupFailure(outcome)
    /\ outcome = "ok"
         => /\ DOMAIN status = {"connector", "display_name", "description",
                                "connected", "status", "account_id"}
            /\ status.status = provider_status
            /\ status.connected <=> provider_status = "ACTIVE"
            /\ status.account_id = AccountId(d.name, user_identifier)

\* C13: for a connector key of the catalog and every provider outcome,
\* get_connection_status returns a status record and never raises; when the
\* provider call fails the record has connected=false, status "ERROR" and the
\* error message, and connected is true only when the provider's status is
\* exactly ACTIVE.
C13_StatusNeverRaises ==
    [][(Called("get_connection_status") /\ call'.connector_name \in CatalogKeys)
        => /\ call'.raised = "none"
           /\ WellFormedStatus(call'.value, Descriptor(call'.connector_name),
                               call'.outcome, accounts'[AccountOf(call')],
                               call'.user_identifier)]_vars

C13_Witness ==
    /\ call.op = "get_connection_status"
    /\ call.connector_name = "github"
    /\ call.outcome = "malformed"
    /\ call.raised = "none"
    /\ call.value.status = "ERROR"
    /\ ~call.value.connected

\* C14: get_connection_status never raises, also for a connector key that
\* is not in the catalog: the unsupported-connector failure becomes a status
\* record with connected=false.
C14_StatusNeverRaisesForUnknownKey ==
    (call.op = "get_connection_status" /\ call.connector_name \notin CatalogKeys)
        => /\ call.raised = "none"
           /\ call.value.connected = FALSE

\* C15: get_all_connection_statuses returns a list with exactly one entry
\* per catalog connector, in catalog order (github, slack, google_ads), each
\* failure embedded in its own entry, and raises nothing, for every
\* combination of provider successes and failures.
C15_OneStatusPerConnector ==
    [][Called("get_all_connection_statuses")
        => /\ call'.raised = "none"
           /\ Len(call'.value) = 3
           /\ [i \in 1 .. Len(call'.value) |-> call'.value[i].connector]
                 = <<"github", "slack", "google_ads">>
           /\ \A i \in 1 .. Len(call'.value) :
                 WellFormedStatus(call'.value[i], SUPPORTED_CONNECTORS[i],
                                  call'.outcomes[i],
                                  accounts'[<<SUPPORTED_CONNECTORS[i].name,
                                              call'.user_identifier>>],
                                  call'.user_identifier)
           /\ [i \in 1 .. Len(call'.calls) |-> call'.calls[i][2]]
                 = <<"github-WZZtcfBc", "slack", "google_ads">>]_vars

C15_Witness ==
    /\ call.op = "get_all_connection_statuses"
    /\ call.outcomes = <<"error", "ok", "malformed">>
    /\ Len(call.value) = 3
    /\ call.value[1].status = "ERROR"
    /\ call.value[2].status = "ACTIVE"
    /\ call.value[3].status = "ERROR"

\* C16: disconnect_account, get_or_create_connected_account and
\* get_authorization_link called with a connector key outside the catalog
\* fail with the unsupported-connector error before any provider call.
C16_UnknownKeyRejectedBeforeProvider ==
    (call.op \in {"disconnect_account", "get_or_create_connected_account",
                  "get_authorization_link"}
       /\ call.connector_name \notin CatalogKeys)
        => /\ call.raised = "ValueError"
           /\ call.message = <<"Unsupported connector: ", call.connector_name>>
           /\ call.calls = <<>>

C16_Witness ==
    /\ call.op = "disconnect_account"
    /\ call.connector_name = "github-WZZtcfBc"
    /\ call.raised = "ValueError"
    /\ call.calls = <<>>
    /\ \E k \in DOMAIN accounts : accounts[k] # "NONE"

\* C17: disconnect_account for a catalog connector looks the account up and
\* only then revokes it: when the lookup raises no delete call is made and
\* the error propagates; when the delete raises the error propagates; a
\* success result is returned only when both provider calls succeeded.
C17_DisconnectLooksUpThenDeletes ==
    (call.op = "disconnect_account" /\ call.connector_name \in CatalogKeys)
        => LET k == AccountOf(call)
               lookup == <<"get_or_create_connected_account", k[1], k[2]>>
               delete == <<"delete_connected_account", k[1], k[2]>>
           IN  /\ call.outcome # "ok"
                    => /\ call.raised \in {"Exception", "AttributeError"}
                       /\ call.message = LookupFailure(call.outcome)
                       /\ call.calls = <<lookup>>
               /\ (call.outcome = "ok" /\ call.delete_outcome = "error")
                    => /\ call.raised = "Exception"
                       /\ call.calls = <<lookup, delete>>
               /\ call.raised = "none"
                    <=> (call.outcome = "ok" /\ call.delete_outcome = "ok")
               /\ call.raised = "none"
                    => /\ call.value.success
                       /\ call.value.connector = call.connector_name
                       /\ call.calls = <<lookup, delete>>
                       /\ accounts[k] = "NONE"

C17_Witness ==
    /\ call.op = "disconnect_account"
    /\ call.connector_name = "slack"
    /\ call.outcome = "error"
    /\ call.raised = "Exception"
    /\ Len(call.calls) = 1

\* C18: a user info query or an organization switch on a session without a
\* SessionRecord is answered 401 unauthenticated, makes no provider call and
\* leaves the session unchanged; a logout leaves no SessionRecord, and a
\* session without one gets one only by a successful callback.
C18_UnauthenticatedRejected ==
    [][/\ ((Served("user") \/ Served("switch_org")) /\ ~session.scalekit_user.present)
            => /\ last'.status = 401
               /\ last'.error = "unauthenticated"
               /\ last'.calls = <<>>
               /\ session' = session
       /\ (Served("logout") /\ last'.status = 200) => ~session'.scalekit_user.present
       /\ (~session.scalekit_user.present /\ session'.scalekit_user.present)
            => Served("callback") /\ last'.status = 200]_vars

C18_Witness ==
    /\ last.kind \in {"user", "switch_org"}
    /\ last.status = 401
    /\ last.calls = <<>>
    /\ consumed # {}
    /\ ~session.scalekit_user.present

\* C19: in the organization list of the user info response an entry has
\* is_current=true exactly when its id equals the session's
\* current_organization_id; exactly one entry is marked when the current
\* organization appears in the provider's list, none when it does not, and
\* never more than one.
C19_ExactlyOneCurrent ==
    call.op = "user_info_view"
        => LET organizations == call.organizations
               current == call.user_data.current_organization_id
               marked == {i \in DOMAIN organizations : organizations[i].is_current}
               appears == Truthy(call.user_data.sub)
                          /\ \E i \in DOMAIN call.orgs : call.orgs[i].id = current
           IN  /\ \A i \in DOMAIN organizations :
                     organizations[i].is_current <=> organizations[i].id = current
               /\ appears => Cardinality(marked) = 1
               /\ ~appears => Cardinality(marked) = 0
               /\ Cardinality(marked) <= 1

\* The text of a field when it has one, the empty text otherwise.
TextOf(v) == IF v.t = "str" THEN v.s ELSE <<>>

\* The first non-empty text of a list of texts, the empty text if there is none.
RECURSIVE FirstNonEmpty(_)
FirstNonEmpty(texts) ==
    IF texts = <<>> THEN <<>>
    ELSE IF Head(texts) # <<>> THEN Head(texts)
    ELSE FirstNonEmpty(Tail(texts))

\* C20: the display name callback stores is the first non-empty value in the
\* order: user-object name, username, given name and family name joined by a
\* space and trimmed, claim name, claim preferred_username, user-object
\* email, for every combination of empty and non-empty values.
C20_DisplayNamePriority ==
    call.op = "callback_view"
        => LET u == call.user_obj
               c == call.user_info
               expected ==
                   FirstNonEmpty(<< TextOf(u.name), TextOf(u.username),
                                    Strip(TextOf(u.givenName) \o <<" ">>
                                            \o TextOf(u.familyName)),
                                    TextOf(c.name), TextOf(c.preferred_username),
                                    TextOf(u.email) >>)
           IN  TextOf(call.name) = expected

\* The ids of a list of organizations, in order.
IdsOf(orgs) == [i \in DOMAIN orgs |-> orgs[i].id]

\* C21: the organization list a successful callback returns is the provider's
\* membership list of the user who authenticated: the same organizations the
\* user info query returns for the session right afterwards.
C21_CallbackReturnsUserOrganizations ==
    call.op = "user_info_view"
        => /\ IdsOf(call.callback_organizations) = IdsOf(call.organizations)
           /\ IdsOf(call.callback_organizations)
                 = IdsOf(call.directory[UserId(call.user_data.sub)])

\* The provider calls a callback made, and whether it left the user record
\* and the token bundle of the session as they were.
CallbackUntouched ==
    /\ call.result.session.scalekit_user = call.session.scalekit_user
    /\ call.result.session.scalekit_tokens = call.session.scalekit_tokens

\* C22: the callback checks the state value first, then a provider error, then
\* the code: a missing, empty or different state value is refused as invalid
\* state whatever else the body holds; with a matching state value a provider
\* error is refused as such whether or not a code came with it; with neither,
\* a missing code is refused.  Each is a 400 with no provider call, and the
\* user record and token bundle of the session are left as they were.
C22_CallbackCheckOrder ==
    (call.op = "callback_view" /\ ~call.body.malformed) =>
        LET state == call.body.state
            matches == state \notin {ABSENT, NONE, EMPTY} /\ state = call.session.oauth_state
            error == call.body.error \notin {ABSENT, NONE, EMPTY}
            code == call.body.code \notin {ABSENT, NONE, EMPTY}
            refused(e) == /\ call.result.status = 400
                          /\ call.result.error = e
                          /\ call.result.calls = <<>>
                          /\ CallbackUntouched
        IN  /\ ~matches => refused("invalid_state")
            /\ (matches /\ error) => refused("provider_error")
            /\ (matches /\ ~error /\ ~code) => refused("missing_code")
            /\ (matches /\ ~error /\ code) => call.result.calls # <<>>

\* Reached: a body with a matching state value, a provider error and a code,
\* refused as a provider error on an anonymous session.
C22_Witness ==
    /\ call.op = "callback_view"
    /\ call.body.state = 1 /\ call.session.oauth_state = 1
    /\ call.body.error = 1 /\ call.body.code = 1
    /\ ~call.session.scalekit_user.present
    /\ call.result.error = "provider_error"
    /\ ~call.result.session.scalekit_user.present

\* C26: the current organization a successful callback stores is the first
\* non-empty one of the claims oid, org_id, organization_id, in that order;
\* when all three are empty no organization id is stored (None when all three
\* are absent).
C26_FirstOrganizationClaim ==
    (call.op = "callback_view" /\ call.result.status = 200) =>
        LET claims == <<call.user_info.oid, call.user_info.org_id,
                        call.user_info.organization_id>>
            stored == call.result.session.scalekit_user.current_organization_id
            given == {i \in 1 .. 3 : claims[i] \notin {NONE, EMPTY}}
        IN  /\ given # {} => \E i \in given : /\ stored = claims[i]
                                              /\ \A j \in given : i <= j
            /\ given = {} => stored \in {NONE, EMPTY}
            /\ (\A i \in 1 .. 3 : claims[i] = NONE) => stored = NONE

\* Reached: oid empty, org_id and organization_id both given; org_id is stored.
C26_Witness ==
    /\ call.op = "callback_view"
    /\ call.result.status = 200
    /\ call.user_info.oid = EMPTY
    /\ call.user_info.org_id = 2
    /\ call.user_info.organization_id = 3
    /\ call.result.session.scalekit_user.current_organization_id = 2

\* The expiry of the bundle a successful refresh wrote.
NewExpiry == call.first.result.session.scalekit_tokens.expires_at[1]

\* The next evaluation of a bundle that was just refreshed, on a path the
\* middleware does not skip.
AfterRefresh ==
    /\ call.op = "next_request"
    /\ call.first.result.outcome = "refreshed"
    /\ ~SkippedPath(call.path)

\* C23 as stated: after a successful refresh the next evaluation of the same
\* session, at the same instant or at any time before the new expiry minus one
\* minute, finds the bundle live and makes no refresh call, for every
\* expires_in the provider returned.
C23_LiveAfterRefresh ==
    (AfterRefresh /\ (call.t = call.first.t \/ call.t + 60 < NewExpiry))
        => call.result.outcome = "live" /\ call.result.calls = <<>>

\* C23 amended: the next evaluation finds the bundle live, and makes no
\* refresh call, exactly at the times before the new expiry minus one minute;
\* at the instant of the refresh that is the case exactly when the stored
\* expires_in is greater than 60, and otherwise a refresh call is made again.
C23_LiveAfterRefreshBeyondBuffer ==
    AfterRefresh =>
        /\ (call.result.outcome = "live" /\ call.result.calls = <<>>)
               <=> call.t + 60 < NewExpiry
        /\ call.t = call.first.t
               => (call.result.outcome = "live"
                      <=> call.first.result.session.scalekit_tokens.expires_in > 60)
        /\ call.result.outcome # "live" => call.result.calls = <<"refresh">>

\* Reached: a refresh that stored expires_in 61, and the next evaluation at the
\* same instant finding the bundle live.
C23_Witness ==
    /\ AfterRefresh
    /\ call.t = call.first.t
    /\ call.first.result.session.scalekit_tokens.expires_in = 61
    /\ call.result.outcome = "live"

\* C30: the middleware changes nothing in the session but the token bundle:
\* the state value and the user record are what they were, and for a session
\* with no user record, no token bundle, a bundle without expires_at or one
\* whose expires_at does not parse, the whole session is unchanged and no
\* provider call is made.
C30_MiddlewareWritesOnlyTokens ==
    call.op = "process_request" =>
        LET bundle == call.session.scalekit_tokens
            unparsable == /\ bundle.expires_at # NoExpiry
                          /\ bundle.expires_at[2] \notin {"+00:00", "Z", ""}
        IN  /\ call.result.session.oauth_state = call.session.oauth_state
            /\ call.result.session.scalekit_user = call.session.scalekit_user
            /\ ( \/ ~call.session.scalekit_user.present
                 \/ ~bundle.present
                 \/ bundle.expires_at = NoExpiry
                 \/ unparsable )
                 => /\ call.result.session = call.session
                    /\ call.result.calls = <<>>

\* Reached: a logged-in session whose expires_at does not parse, left as it was
\* on a path the middleware does not skip.
C30_Witness ==
    /\ call.op = "process_request"
    /\ call.session.scalekit_user.present
    /\ call.session.scalekit_tokens.present
    /\ call.session.scalekit_tokens.expires_at = <<61, "garbage">>
    /\ call.path = PathOf("user")
    /\ call.t = 2
    /\ call.result.session = call.session
    /\ call.result.outcome = "bad_expires_at"

\* How many times a provider call occurs among the calls of a request.
Count(calls, name) == Cardinality({i \in DOMAIN calls : calls[i] = name})

\* C24: no provider call is retried: one request makes at most one refresh
\* call, and exactly one when its refresh failed or succeeded; one callback
\* makes at most one exchange call, whether the call succeeds or raises.
C24_NoRetry ==
    /\ Count(last.calls, "refresh") <= 1
    /\ last.mw \in {"refreshed", "refresh_failed"} => Count(last.calls, "refresh") = 1
    /\ Count(last.calls, "exchange") <= 1
    /\ (last.kind = "callback" /\ last.raised) => Count(last.calls, "exchange") = 1

\* Reached: a request whose refresh call raised, with that one call made.
C24_Witness ==
    /\ last.kind = "user"
    /\ last.mw = "refresh_failed"
    /\ last.refresh.raised
    /\ Count(last.calls, "refresh") = 1

\* C27: a session holds at most one state value, the latest one issued: a
\* callback that presents an earlier state value is refused as invalid state
\* before any exchange, and a callback succeeds only with the latest one.
C27_LatestStateWins ==
    /\ session.oauth_state \in {NONE, issued_states}
    /\ (last.kind = "callback" /\ last.presented \in 1 .. (issued_states - 1))
          => /\ last.status = 400
             /\ last.error = "invalid_state"
             /\ "exchange" \notin Calls(last)
    /\ (last.kind = "callback" /\ last.status = 200)
          => /\ last.presented = issued_states
             /\ last.presented = last.pre_oauth_state

\* Reached: two state values issued with no successful callback between; the
\* callback presenting the first, never used before, is refused.
C27_Witness ==
    /\ last.kind = "callback"
    /\ last.presented = 1
    /\ last.pre_oauth_state = 2
    /\ consumed = {}
    /\ last.status = 400
    /\ last.error = "invalid_state"

\* C28: a callback that fails, at whatever step, leaves the user record and the
\* token bundle of the session exactly as they were; a callback that succeeds
\* writes both, from the answers of this callback's exchange and validation;
\* never only one of the two is written.
C28_FailedCallbackWritesNothing ==
    call.op = "callback_view" =>
        /\ call.result.status # 200 => CallbackUntouched
        /\ call.result.status = 200
              => /\ call.result.session.scalekit_user.present
                 /\ call.result.session.scalekit_tokens.present
                 /\ call.result.session.scalekit_tokens.access_token
                       = call.exch.access_token
                 /\ call.result.session.scalekit_user.current_organization_id
                       = CurrentOrgId(call.user_info)

\* Reached: a logged-in session whose callback passed the checks and failed at
\* token validation, after the exchange; both records are as before.
C28_Witness ==
    /\ call.op = "callback_view"
    /\ call.session.scalekit_user.present
    /\ call.result.status = 500
    /\ call.result.calls = <<"exchange", "validate">>
    /\ call.result.session.scalekit_user = StoredUser
    /\ call.result.session.scalekit_tokens = StoredTokens

\* C29: the session holds a token bundle only if it holds a user record.
C29_TokensOnlyWithUser ==
    session.scalekit_tokens.present => session.scalekit_user.present

\* Reached: a logout that removed a user record and a token bundle together.
C29_Witness ==
    /\ last.kind = "logout"
    /\ last.status = 200
    /\ last.pre_access_token # NONE
    /\ ~session.scalekit_tokens.present
    /\ ~session.scalekit_user.present

\* A bundle built in this step: it holds the token the provider just issued,
\* an expires_in and the expires_at that lies expires_in after this instant.
BuiltNow(bundle) ==
    /\ bundle.present
    /\ issued_tokens' = issued_tokens + 1
    /\ bundle.access_token = issued_tokens'
    /\ bundle.expires_in \in Nat
    /\ bundle.expires_at = <<now + bundle.expires_in, "+00:00">>

\* A bundle whose expires_at is its expires_in after some instant up to now.
WrittenWhole(bundle) ==
    bundle.present => /\ bundle.expires_in \in Nat
                      /\ bundle.access_token \in 1 .. issued_tokens
                      /\ bundle.expires_at[2] = "+00:00"
                      /\ bundle.expires_at[1] - bundle.expires_in \in 0 .. now

\* C25: the token bundle is written as one whole record: whenever the bundle
\* of the store changes it becomes a bundle built whole in that step (with
\* expires_at = that instant + expires_in), the whole bundle a finishing
\* request held, or none; the bundle a request holds changes only to the
\* whole bundle of the store (loaded), to one built whole in that step, or to
\* none; so every bundle in the store or held by a request, also while
\* another request of the session refreshes, has the expires_at that lies
\* its expires_in after the instant it was built.
C25_BundleWrittenWhole ==
    [][ /\ session'.scalekit_tokens # session.scalekit_tokens
            => \/ BuiltNow(session'.scalekit_tokens)
               \/ session'.scalekit_tokens = NoTokens
               \/ \E r \in Reqs : /\ flight[r].pc = "view"
                                  /\ flight'[r].pc = "idle"
                                  /\ session'.scalekit_tokens
                                        = flight[r].cache.scalekit_tokens
        /\ \A r \in Reqs :
              flight'[r].cache.scalekit_tokens # flight[r].cache.scalekit_tokens
                 => \/ BuiltNow(flight'[r].cache.scalekit_tokens)
                    \/ flight'[r].cache.scalekit_tokens = session.scalekit_tokens
                    \/ flight'[r].cache.scalekit_tokens = NoTokens
        /\ WrittenWhole(session.scalekit_tokens)
        /\ \A r \in Reqs : WrittenWhole(flight[r].cache.scalekit_tokens) ]_vars

\* Reached: one request holds the bundle it just refreshed while another
\* request of the session, begun on the old bundle, is still refreshing and
\* the store still holds the old bundle.
C25_Witness ==
    \E r, r2 \in Reqs :
        /\ flight[r].pc = "view"
        /\ flight[r].mw = "refreshed"
        /\ flight[r].cache.scalekit_tokens.access_token = 2
        /\ flight[r2].pc = "refreshing"
        /\ session.scalekit_tokens.access_token = 1

C32_RefreshKeepsIdToken ==
    (call.op = "process_request" /\ call.result.outcome = "refreshed"
        /\ call.resp.id_token \in {ABSENT, NONE, EMPTY})
        => call.result.session.scalekit_tokens.id_token
              = call.session.scalekit_tokens.id_token

====
